---- MODULE Spec2Model ----
(***************************************************************************)
(* Model of the `alias` crate (src/src/lib.rs): the two conversions        *)
(* `one` (&mut T -> &Cell<T>) and `slice` (&mut [T] -> &[Cell<T>]), the    *)
(* Cell get/set and slice indexing they are used with, and the four        *)
(* programs of the source that exercise them (the two smoke tests, taken   *)
(* with arbitrary operation sequences, and the two documentation           *)
(* examples, taken as written).                                            *)
(*                                                                         *)
(* Storage is a word-addressed memory.  The owner's variable `x` lives at  *)
(* XAddr and occupies `len` words (one word per T); the word after it is   *)
(* adjacent storage that does not belong to `x`.  A reference is the       *)
(* address it holds (a thin pointer [ptr]) or an address and a length (a   *)
(* fat pointer [ptr, len]); a transmute keeps the bits it is given.        *)
(***************************************************************************)
EXTENDS Integers, FiniteSets, Sequences, TLC

\* ---- bounds of the model ----
MaxVal == 1          \* values of T in the smoke programs are 0..MaxVal
MaxLen == 2          \* the smoke slice has 0..MaxLen elements

\* ---- constants of the program ----
XAddr == 0           \* address of the owner's variable x
Pad == 0             \* content of the word adjacent to x
DocInit == 0         \* `let mut x = 0` / `[0, 0, 0, 0]`
DocLen == 4          \* length of the array of the slice example
DocSet == 10         \* `z.set(10)` / `z[i].set(10)`
DocAdd == 2          \* `y.set(y.get() + 2)`

NoVal == -1
Vals == 0..MaxVal
Aliases == {"y", "z"}
Programs == {"one", "slice", "doc_one", "doc_slice"}

VARIABLES
    prog,      \* which program of the source runs
    len,       \* number of T's in x (1 for a single value)
    mem,       \* the storage: address -> word
    pc,        \* "owned", "aliased", "released" or "panicked"
    refs,      \* the live aliases: alias name -> reference
    line,      \* position in a documentation example ("any" in a smoke program)
    i,         \* loop counter of the slice example
    op,        \* the operation executed last (with the value a get returned)
    prev,      \* history: the operation executed before op
    orig,      \* history: content of x at the conversion
    last,      \* history: per element, the most recent set (its value, its alias)
    written    \* history: per element, every value passed to a set

vars == <<prog, len, mem, pc, refs, line, i, op, prev, orig, last, written>>

NoOp == [kind |-> "none", alias |-> "-", idx |-> 0, val |-> NoVal]
NoSet == [val |-> NoVal, by |-> "-"]

\* ---- std::cell::Cell<T>: a bitwise copy out of / into the cell's storage ----
\* a get that reads one word too far
CellGet_next(m, p) == IF p + 1 \in DOMAIN m THEN m[p + 1] ELSE m[p]

CellGet(m, p) == m[p]

\* a set that drops the write
CellSet_lost(m, p, v) == m

\* a set that copies one word too many
CellSet_wide(m, p, v) == [a \in DOMAIN m |-> IF a \in {p, p + 1} THEN v ELSE m[a]]

\* a set that clears the cell instead of storing v
CellSet_reset(m, p, v) == [m EXCEPT ![p] = Pad]

CellSet(m, p, v) == [m EXCEPT ![p] = v]

\* ---- the two conversions: mem::transmute keeps the bits of the reference ----
\* a conversion whose cell is not the storage of x
one_moved(data) == [ptr |-> data.ptr + 1]

one(data) == [ptr |-> data.ptr]

\* a conversion whose view starts one element late
slice_shifted(data) == [ptr |-> data.ptr + 1, len |-> data.len]

\* a conversion whose view is one element too long
slice_long(data) == [ptr |-> data.ptr, len |-> data.len + 1]

\* a conversion whose view is one element too short
slice_short(data) == [ptr |-> data.ptr, len |-> IF data.len > 0 THEN data.len - 1 ELSE 0]

slice(data) == [ptr |-> data.ptr, len |-> data.len]

\* ---- slice indexing view[k]: bounds check against the fat pointer, then offset ----
InBounds(view, k) == k < view.len

\* indexing that ignores the index
Index_first(view, k) == view.ptr

Index(view, k) == view.ptr + k

\* the owner's variable x, read as a whole
X == [k \in 0..(len - 1) |-> mem[XAddr + k]]

Init ==
    /\ prog \in Programs
    /\ \/ /\ prog = "one"
          /\ len = 1
          /\ \E v \in Vals : mem = [a \in 0..1 |-> IF a = XAddr THEN v ELSE Pad]
          /\ line = "any"
       \/ /\ prog = "slice"
          /\ len \in 0..MaxLen
          /\ \E c \in [0..(len - 1) -> Vals] :
                mem = [a \in 0..len |-> IF a < len THEN c[a] ELSE Pad]
          /\ line = "any"
       \/ /\ prog = "doc_one"
          /\ len = 1
          /\ mem = [a \in 0..1 |-> IF a = XAddr THEN DocInit ELSE Pad]
          /\ line = "convert"
       \/ /\ prog = "doc_slice"
          /\ len = DocLen
          /\ mem = [a \in 0..DocLen |-> IF a < DocLen THEN DocInit ELSE Pad]
          /\ line = "convert"
    /\ pc = "owned"
    /\ refs = <<>>
    /\ i = 0
    /\ op = NoOp
    /\ prev = NoOp
    /\ orig = <<>>
    /\ last = <<>>
    /\ written = <<>>

\* ---- the steps of a program, without its control flow ----

\* let y = alias::one(&mut x);
DoConvertOne ==
    /\ pc = "owned"
    /\ refs' = [a \in {"y"} |-> one([ptr |-> XAddr])]
    /\ pc' = "aliased"
    /\ op' = [kind |-> "convert", alias |-> "y", idx |-> 0, val |-> NoVal]
    /\ prev' = op
    /\ orig' = X
    /\ last' = [k \in 0..(len - 1) |-> NoSet]
    /\ written' = [k \in 0..(len - 1) |-> {}]
    /\ UNCHANGED <<prog, len, mem>>

\* let y = alias::slice(&mut x);
DoConvertSlice ==
    /\ pc = "owned"
    /\ refs' = [a \in {"y"} |-> slice([ptr |-> XAddr, len |-> len])]
    /\ pc' = "aliased"
    /\ op' = [kind |-> "convert", alias |-> "y", idx |-> 0, val |-> NoVal]
    /\ prev' = op
    /\ orig' = X
    /\ last' = [k \in 0..(len - 1) |-> NoSet]
    /\ written' = [k \in 0..(len - 1) |-> {}]
    /\ UNCHANGED <<prog, len, mem>>

\* let z = y;   (a shared reference is Copy)
DoCopy(a, b) ==
    /\ pc = "aliased"
    /\ a \in DOMAIN refs
    /\ b \notin DOMAIN refs
    /\ refs' = [c \in DOMAIN refs \cup {b} |-> IF c = b THEN refs[a] ELSE refs[c]]
    /\ op' = [kind |-> "copy", alias |-> b, idx |-> 0, val |-> NoVal]
    /\ prev' = op
    /\ UNCHANGED <<prog, len, mem, pc, orig, last, written>>

\* a get that moves the value out of the cell (as Cell::take does)
DoCellGet_take(a, k, p) ==
    /\ op' = [kind |-> "get", alias |-> a, idx |-> k, val |-> CellGet(mem, p)]
    /\ prev' = op
    /\ mem' = [mem EXCEPT ![p] = Pad]
    /\ UNCHANGED <<prog, len, pc, refs, orig, last, written>>

\* cell.get() on the cell at address p (element k of x), through alias a
DoCellGet(a, k, p) ==
    /\ op' = [kind |-> "get", alias |-> a, idx |-> k, val |-> CellGet(mem, p)]
    /\ prev' = op
    /\ UNCHANGED <<prog, len, mem, pc, refs, orig, last, written>>

\* cell.set(v) on the cell at address p (element k of x), through alias a
DoCellSet(a, k, p, v) ==
    /\ mem' = CellSet(mem, p, v)
    /\ op' = [kind |-> "set", alias |-> a, idx |-> k, val |-> v]
    /\ prev' = op
    /\ last' = [last EXCEPT ![k] = [val |-> v, by |-> a]]
    /\ written' = [written EXCEPT ![k] = @ \cup {v}]
    /\ UNCHANGED <<prog, len, pc, refs, orig>>

\* view[k] with k out of range: panic "index out of bounds"
DoPanic(a, k) ==
    /\ pc' = "panicked"
    /\ op' = [kind |-> "oob", alias |-> a, idx |-> k, val |-> NoVal]
    /\ prev' = op
    /\ UNCHANGED <<prog, len, mem, refs, orig, last, written>>

\* view[k].get()
DoGetAt(a, k) ==
    /\ pc = "aliased"
    /\ a \in DOMAIN refs
    /\ IF InBounds(refs[a], k)
          THEN DoCellGet(a, k, Index(refs[a], k))
          ELSE DoPanic(a, k)

\* view[k].set(v)
DoSetAt(a, k, v) ==
    /\ pc = "aliased"
    /\ a \in DOMAIN refs
    /\ IF InBounds(refs[a], k)
          THEN DoCellSet(a, k, Index(refs[a], k), v)
          ELSE DoPanic(a, k)

\* the scope of the view ends; x is read through its owner again
DoRelease ==
    /\ pc = "aliased"
    /\ pc' = "released"
    /\ refs' = <<>>
    /\ op' = [kind |-> "release", alias |-> "-", idx |-> 0, val |-> NoVal]
    /\ prev' = op
    /\ UNCHANGED <<prog, len, mem, orig, last, written>>

\* ---- tests::smoke_one, with any sequence of operations ----
ConvertOne == prog = "one" /\ DoConvertOne /\ UNCHANGED <<line, i>>

CopyOne(a, b) == prog = "one" /\ DoCopy(a, b) /\ UNCHANGED <<line, i>>

GetOne(a) ==
    /\ prog = "one"
    /\ pc = "aliased"
    /\ a \in DOMAIN refs
    /\ DoCellGet(a, 0, refs[a].ptr)
    /\ UNCHANGED <<line, i>>

SetOne(a, v) ==
    /\ prog = "one"
    /\ pc = "aliased"
    /\ a \in DOMAIN refs
    /\ DoCellSet(a, 0, refs[a].ptr, v)
    /\ UNCHANGED <<line, i>>

ReleaseOne == prog = "one" /\ DoRelease /\ UNCHANGED <<line, i>>

\* ---- tests::smoke_slice, with any sequence of operations ----
ConvertSlice == prog = "slice" /\ DoConvertSlice /\ UNCHANGED <<line, i>>

CopySlice(a, b) == prog = "slice" /\ DoCopy(a, b) /\ UNCHANGED <<line, i>>

GetAt(a, k) == prog = "slice" /\ DoGetAt(a, k) /\ UNCHANGED <<line, i>>

SetAt(a, k, v) == prog = "slice" /\ DoSetAt(a, k, v) /\ UNCHANGED <<line, i>>

ReleaseSlice == prog = "slice" /\ DoRelease /\ UNCHANGED <<line, i>>

\* ---- the documentation example of `one` ----
DocOneConvert ==
    /\ prog = "doc_one" /\ line = "convert"
    /\ DoConvertOne
    /\ line' = "copy" /\ UNCHANGED i

DocOneCopy ==
    /\ prog = "doc_one" /\ line = "copy"
    /\ DoCopy("y", "z")
    /\ line' = "set" /\ UNCHANGED i

\* z.set(10);
DocOneSet ==
    /\ prog = "doc_one" /\ line = "set"
    /\ DoCellSet("z", 0, refs["z"].ptr, DocSet)
    /\ line' = "get" /\ UNCHANGED i

\* y.set(y.get() + 2);  -- the argument y.get()
DocOneGet ==
    /\ prog = "doc_one" /\ line = "get"
    /\ DoCellGet("y", 0, refs["y"].ptr)
    /\ line' = "add" /\ UNCHANGED i

\* y.set(y.get() + 2);  -- the call
DocOneAdd ==
    /\ prog = "doc_one" /\ line = "add"
    /\ DoCellSet("y", 0, refs["y"].ptr, op.val + DocAdd)
    /\ line' = "read" /\ UNCHANGED i

\* assert_eq!(z.get(), 12);  -- the read
DocOneRead ==
    /\ prog = "doc_one" /\ line = "read"
    /\ DoCellGet("z", 0, refs["z"].ptr)
    /\ line' = "assert" /\ UNCHANGED i

\* assert_eq!(z.get(), 12);  -- the comparison, then the end of the example
DocOneAssert ==
    /\ prog = "doc_one" /\ line = "assert"
    /\ pc = "aliased"
    /\ IF op.val = DocSet + DocAdd
          THEN DoRelease
          ELSE /\ pc' = "panicked"
               /\ UNCHANGED <<prog, len, mem, refs, op, prev, orig, last, written>>
    /\ line' = "end" /\ UNCHANGED i

\* ---- the documentation example of `slice` ----
DocSliceConvert ==
    /\ prog = "doc_slice" /\ line = "convert"
    /\ DoConvertSlice
    /\ line' = "copy" /\ UNCHANGED i

DocSliceCopy ==
    /\ prog = "doc_slice" /\ line = "copy"
    /\ DoCopy("y", "z")
    /\ line' = "set" /\ i' = 0

\* for i in 0..4 { z[i].set(10);
DocSliceSet ==
    /\ prog = "doc_slice" /\ line = "set"
    /\ DoSetAt("z", i, DocSet)
    /\ line' = "get" /\ UNCHANGED i

\* y[i].set(y[i].get() + i);  -- the argument y[i].get()
DocSliceGet ==
    /\ prog = "doc_slice" /\ line = "get"
    /\ DoGetAt("y", i)
    /\ line' = "add" /\ UNCHANGED i

\* y[i].set(y[i].get() + i); }  -- the call, then the next iteration
DocSliceAdd ==
    /\ prog = "doc_slice" /\ line = "add"
    /\ DoSetAt("y", i, op.val + i)
    /\ IF i + 1 < DocLen
          THEN line' = "set" /\ i' = i + 1
          ELSE line' = "read" /\ i' = 0

\* assert_eq!(z[i].get(), 10 + i);  -- the read
DocSliceRead ==
    /\ prog = "doc_slice" /\ line = "read"
    /\ DoGetAt("z", i)
    /\ line' = "assert" /\ UNCHANGED i

\* assert_eq!(z[i].get(), 10 + i);  -- the comparison, then the next assert or the end
DocSliceAssert ==
    /\ prog = "doc_slice" /\ line = "assert"
    /\ pc = "aliased"
    /\ IF op.val # DocSet + i
          THEN /\ pc' = "panicked"
               /\ line' = "end"
               /\ UNCHANGED <<prog, len, mem, refs, op, prev, orig, last, written, i>>
          ELSE IF i + 1 < DocLen
                  THEN /\ line' = "read" /\ i' = i + 1
                       /\ UNCHANGED <<prog, len, mem, pc, refs, op, prev, orig, last, written>>
                  ELSE /\ DoRelease
                       /\ line' = "end" /\ UNCHANGED i

Next ==
    \/ ConvertOne
    \/ \E a, b \in Aliases : CopyOne(a, b)
    \/ \E a \in Aliases : GetOne(a)
    \/ \E a \in Aliases, v \in Vals : SetOne(a, v)
    \/ ReleaseOne
    \/ ConvertSlice
    \/ \E a, b \in Aliases : CopySlice(a, b)
    \/ \E a \in Aliases, k \in 0..(len + 1) : GetAt(a, k)
    \/ \E a \in Aliases, k \in 0..(len + 1), v \in Vals : SetAt(a, k, v)
    \/ ReleaseSlice
    \/ DocOneConvert
    \/ DocOneCopy
    \/ DocOneSet
    \/ DocOneGet
    \/ DocOneAdd
    \/ DocOneRead
    \/ DocOneAssert
    \/ DocSliceConvert
    \/ DocSliceCopy
    \/ DocSliceSet
    \/ DocSliceGet
    \/ DocSliceAdd
    \/ DocSliceRead
    \/ DocSliceAssert

Spec == Init /\ [][Next]_vars

\* ---- properties ----

OnePrograms == {"one", "doc_one"}
SlicePrograms == {"slice", "doc_slice"}
Elems == 0..(len - 1)
Converted == pc \in {"aliased", "released", "panicked"}

\* what alias a reads at element k: cell.get() for a single value, view[k].get() for a slice
Read(a, k) ==
    IF prog \in OnePrograms THEN CellGet(mem, refs[a].ptr)
                            ELSE CellGet(mem, Index(refs[a], k))

\* C1: on the single cell returned by one(), once a set has been made, a get
\* through every alias (the writer and every other one) returns the value of
\* the most recent set, whoever made it; a get that was just executed
\* returned that value.
C1_LastWriteWins ==
    (prog \in OnePrograms /\ pc = "aliased" /\ last[0] # NoSet) =>
        /\ \A a \in DOMAIN refs : Read(a, 0) = last[0].val
        /\ op.kind = "get" => op.val = last[0].val

\* alias y set one value, alias z then set another, and y has just read z's value
C1_Witness ==
    /\ prog = "one" /\ pc = "aliased"
    /\ Cardinality(written[0]) = 2
    /\ last[0].by = "z"
    /\ prev.kind = "set" /\ prev.alias = "z"
    /\ op.kind = "get" /\ op.alias = "y" /\ op.val = last[0].val
    /\ op.val # orig[0]

\* C2: a get or a set at index i of the view returned by slice() leaves every
\* element j # i of the sequence unchanged.
C2_FrameOtherElements ==
    [][(prog' \in SlicePrograms /\ op'.kind \in {"get", "set"}) =>
          \A j \in Elems : j # op'.idx => mem'[XAddr + j] = mem[XAddr + j]]_vars

\* element 0 was just set to a value element 1 does not hold, and element 1
\* still holds a value set earlier
C2_Witness ==
    /\ prog = "slice" /\ len >= 2
    /\ op.kind = "set" /\ op.idx = 0
    /\ last[1] # NoSet /\ last[1].val # op.val
    /\ mem[XAddr + 1] = last[1].val
    /\ mem[XAddr + 1] # orig[1]

\* C3: indexing the view returned by slice() at k >= N panics with a range
\* error and leaves every element of the sequence as it was (the index is
\* unsigned: there is no k < 0).
C3_OutOfRangeFails ==
    [][\A a \in Aliases, k \in 0..(len + 1) :
          (k >= len /\ (GetAt(a, k) \/ \E v \in Vals : SetAt(a, k, v))) =>
              /\ pc' = "panicked"
              /\ op'.kind = "oob" /\ op'.idx = k
              /\ X' = X]_vars

\* after sets on a non-empty sequence, an index equal to the length panicked
\* and the elements hold what was set
C3_Witness ==
    /\ prog = "slice" /\ len = MaxLen /\ pc = "panicked"
    /\ op.kind = "oob" /\ op.idx = len
    /\ prev.kind = "set"
    /\ \A k \in Elems : last[k] # NoSet /\ mem[XAddr + k] = last[k].val

\* C4: the conversion does not change contents: until the first set, get()
\* on the cell returned by one() returns the value x held before the
\* conversion; the view returned by slice() has the length of the sequence
\* and get() at index k returns the original element k.
C4_ConversionPreservesContents ==
    (pc = "aliased" /\ \A k \in Elems : last[k] = NoSet) =>
        \A a \in DOMAIN refs :
            /\ prog \in SlicePrograms =>
                  /\ refs[a].len = len
                  /\ \A k \in Elems : InBounds(refs[a], k)
            /\ \A k \in Elems : Read(a, k) = orig[k]
            /\ orig = X

\* right after slice() of a sequence of MaxLen elements that differ from the
\* adjacent word
C4_Witness ==
    /\ prog = "slice" /\ len = MaxLen /\ pc = "aliased"
    /\ op.kind = "convert"
    /\ \A k \in Elems : orig[k] # Pad /\ Read("y", k) = orig[k]

\* C5: once the view is no longer in use, x read through its owner holds, for
\* each element, the value of the last set made through any alias, or its
\* pre-conversion value when no set was made on it.
C5_WritesReachOwner ==
    pc = "released" =>
        \A k \in Elems : X[k] = (IF last[k] = NoSet THEN orig[k] ELSE last[k].val)

\* the single value was set through z to a value other than the original,
\* and the view was released
C5_Witness ==
    /\ prog = "one" /\ pc = "released"
    /\ last[0] # NoSet /\ last[0].by = "z"
    /\ last[0].val # orig[0]
    /\ X[0] = last[0].val

\* C6: under any interleaving of get and set calls by the alias holders, the
\* content of every cell is the value it held at the conversion or a value
\* that was passed to some set on that cell, and every get returns such a value.
C6_NoCorruption ==
    Converted =>
        /\ \A k \in Elems : X[k] \in {orig[k]} \cup written[k]
        /\ \A a \in DOMAIN refs : \A k \in Elems :
              Read(a, k) \in {orig[k]} \cup written[k]
        /\ (op.kind = "get" /\ op.idx \in Elems) =>
              op.val \in {orig[op.idx]} \cup written[op.idx]

\* both aliases have set element 0 of a slice, with different values, and a
\* get has just returned the later one
C6_Witness ==
    /\ prog = "slice" /\ len >= 1 /\ pc = "aliased"
    /\ DOMAIN refs = Aliases
    /\ Cardinality(written[0]) >= 2
    /\ op.kind = "get" /\ op.idx = 0 /\ op.val = last[0].val
    /\ op.alias # last[0].by

\* C7: get is read-only and idempotent: a get changes no storage, and a get
\* that directly follows a get on the same cell, through the same or another
\* alias, returns the same value.
C7_GetIdempotent ==
    [][op'.kind = "get" =>
          /\ mem' = mem
          /\ (op.kind = "get" /\ op.idx = op'.idx) => op'.val = op.val]_vars

\* two consecutive gets on the same cell through different aliases, after a set
C7_Witness ==
    /\ pc = "aliased"
    /\ prev.kind = "get" /\ op.kind = "get"
    /\ prev.idx = op.idx /\ prev.alias # op.alias
    /\ prev.val = op.val
    /\ last[op.idx] # NoSet /\ op.val # Pad

\* C8: the example of one(): x starts at 0; z.set(10); y then reads 10;
\* y.set(y.get() + 2) stores 12; z then reads 12, and the assertion passes.
C8_DocOneScenario ==
    prog = "doc_one" =>
        /\ pc # "panicked"
        /\ line = "convert" => X[0] = 0
        /\ line = "get" => (op.kind = "set" /\ op.alias = "z" /\ X[0] = 10)
        /\ line = "add" => (op.kind = "get" /\ op.alias = "y" /\ op.val = 10)
        /\ line = "read" => (op.kind = "set" /\ op.alias = "y" /\ op.val = 12 /\ X[0] = 12)
        /\ line = "assert" => (op.kind = "get" /\ op.alias = "z" /\ op.val = 12)
        /\ line = "end" => (pc = "released" /\ X[0] = 12)

\* the example ran to its end
C8_Witness ==
    /\ prog = "doc_one" /\ line = "end" /\ pc = "released"
    /\ written[0] = {10, 12} /\ X[0] = 12

\* C9: the example of slice(): x starts as [0,0,0,0]; for each i in 0..3,
\* z[i].set(10) and then y[i].set(y[i].get() + i); the final sequence is
\* [10,11,12,13] and every assertion passes.
C9_DocSliceScenario ==
    prog = "doc_slice" =>
        /\ pc # "panicked"
        /\ line = "convert" => X = [k \in 0..3 |-> 0]
        /\ line = "add" => (op.kind = "get" /\ op.val = 10)
        /\ line \in {"read", "assert", "end"} => X = [k \in 0..3 |-> 10 + k]
        /\ line = "assert" => (op.kind = "get" /\ op.alias = "z" /\ op.val = 10 + i)
        /\ line = "end" => pc = "released"

\* the example ran to its end, every element set by both aliases
C9_Witness ==
    /\ prog = "doc_slice" /\ line = "end" /\ pc = "released"
    /\ \A k \in Elems : written[k] = {10, 10 + k} /\ last[k].by = "y"
    /\ X[3] = 13

\* C10: the length of the view returned by slice() is the length N of the
\* sequence at the conversion and stays N through every copy, get, set and
\* indexing (in range or not); nothing inserts or removes an element.
C10_LengthFixed ==
    (prog \in SlicePrograms /\ Converted) =>
        /\ \A a \in DOMAIN refs : refs[a].len = Cardinality(DOMAIN orig)
        /\ Cardinality(DOMAIN orig) = len
        /\ DOMAIN X = DOMAIN orig

\* after sets, gets and an out-of-range index through two aliases of a full
\* length view
C10_Witness ==
    /\ prog = "slice" /\ len = MaxLen /\ pc = "panicked"
    /\ DOMAIN refs = Aliases
    /\ refs["z"].len = MaxLen
    /\ \A k \in Elems : last[k] # NoSet
    /\ prev.kind = "get"

====
